---- MODULE Spec2Model ----
(***************************************************************************)
(* Model of the CodeGroup file-group storage engine: the two group stores  *)
(* (workspace-local, global), each a cache plus a JSON artifact, the       *)
(* StorageService operations over them, and the tree commands, drag and    *)
(* drop handlers and filesystem notifications that call them.              *)
(*                                                                         *)
(* A path is a sequence of one-character strings.  A member (GroupFile) is *)
(* a record [path, name]; a group (FileGroup) is a record                  *)
(* [id, parentId, isGlobal, order, files].  An absent parentId is NoParent *)
(* and an absent isGlobal is FALSE (every read of isGlobal in the source   *)
(* is a truthiness test).  Presentation-only fields (name, icon, color,    *)
(* notes, collapsed, isDirectory) are read by no modelled operation and    *)
(* are left out of the records.                                            *)
(***************************************************************************)
EXTENDS Integers, Sequences, FiniteSets, TLC

\* ---------------------------------------------------------------- bounds
\* Spec: the forest operations over up to MaxGroups groups.
MaxGroups == 3
MaxMembers == 1
MaxDrag == 1
\* MemberSpec: the member operations over up to MemberGroups groups.
MemberGroups == 2
MemberMembers == 2
MemberDrag == 2
\* StepSpec: the same handlers, each saveGroups call one write at a time.
StepGroups == 2
StepMembers == 1
StepDrag == 1
TreeGroups == 2
TreeMembers == 1
TreeDrag == 1
MaxLoaded == 3
StackLimit == 4
NotifyGroups == 1
MaxOverlap == 2
\* CodecSpec: the longest path tail below the root.
MaxTail == 3

\* ------------------------------------------------------------- constants
NoParent == 0

Root == <<"/", "w">>
WinRoot == <<"C", ":", "\\", "w">>
PathA == <<"/", "w", "/", "a">>
PathB == <<"/", "x">>
PathC == <<"/", "w", "/", ":">>
Paths == {PathA, PathB}
MemberPaths == {PathA, PathB, PathC}
PosixSep == "/"
Unknown == <<"unknown">>

\* --------------------------------------------------------- sequence help
Range(s) == {s[i] : i \in DOMAIN s}

\* Array.prototype.findIndex for the two tests the code uses, 1-based; 0 when
\* no element matches (-1 in JS).
IndexOfId(groups, id) ==
    IF \E i \in DOMAIN groups : groups[i].id = id
    THEN CHOOSE i \in DOMAIN groups :
            groups[i].id = id /\ \A j \in 1..(i - 1) : groups[j].id # id
    ELSE 0

IndexOfPath(files, path) ==
    IF \E i \in DOMAIN files : files[i].path = path
    THEN CHOOSE i \in DOMAIN files :
            files[i].path = path /\ \A j \in 1..(i - 1) : files[j].path # path
    ELSE 0

RemoveAt(s, i) == SubSeq(s, 1, i - 1) \o SubSeq(s, i + 1, Len(s))
InsertAt(s, i, e) == SubSeq(s, 1, i - 1) \o <<e>> \o SubSeq(s, i, Len(s))

StartsWith(s, p) == Len(p) <= Len(s) /\ SubSeq(s, 1, Len(p)) = p

\* String.prototype.replace with a global single-character pattern.
ReplaceAll(s, from, to) == [i \in DOMAIN s |-> IF s[i] = from THEN to ELSE s[i]]

\* ------------------------------------------------------------ path codec
ToRelativePath(absolutePath, workspaceRoot) ==
    LET normalizedAbsolute == ReplaceAll(absolutePath, "\\", "/")
        normalizedRoot == ReplaceAll(workspaceRoot, "\\", "/")
    IN  IF StartsWith(normalizedAbsolute, normalizedRoot)
        THEN SubSeq(normalizedAbsolute, Len(normalizedRoot) + 2, Len(normalizedAbsolute))
        ELSE absolutePath

ToAbsolutePath(relativePath, workspaceRoot, sep) ==
    IF (\E i \in DOMAIN relativePath : relativePath[i] = ":")
       \/ (Len(relativePath) > 0 /\ relativePath[1] = "/")
    THEN relativePath
    ELSE ReplaceAll(workspaceRoot \o <<"/">> \o relativePath, "/", sep)

\* newPath.split(/[/\\]/).pop() || 'unknown'
BaseName(p) ==
    LET IsSep(c) == c = "/" \/ c = "\\"
        cut == IF \E i \in DOMAIN p : IsSep(p[i])
               THEN CHOOSE i \in DOMAIN p : IsSep(p[i]) /\ \A j \in (i + 1)..Len(p) : ~IsSep(p[j])
               ELSE 0
        seg == SubSeq(p, cut + 1, Len(p))
    IN  IF seg = <<>> THEN Unknown ELSE seg

GroupFile(p) == [path |-> p, name |-> BaseName(p)]

\* ------------------------------------------------------------ the stores
(***************************************************************************)
(* A store state st is a record of the five persisted things:              *)
(*   lc   workspaceState 'fileGroups'        (local cache)                 *)
(*   lf   .vscode/file-groups.json           (local artifact)              *)
(*   gc   globalState 'globalFileGroups'     (global cache)                *)
(*   gf   file-groups-global.json            (global artifact)             *)
(*   cfg  workspaceState 'fileGroupsConfig'  (the hide setting)            *)
(* An artifact is [exists, json, keys, groups, hide]: json says whether   *)
(* its text parses, keys which of "version" and "groups" the parsed config *)
(* holds with a truthy value; hide is "unset", "yes" or "no".              *)
(***************************************************************************)
ConfigKeys == {"version", "groups"}
NoFile == [exists |-> FALSE, json |-> FALSE, keys |-> {}, groups |-> <<>>, hide |-> "unset"]

\* What saveToFile, saveToGlobalFile and saveConfigToFile write.
Artifact(groups, hide) ==
    [exists |-> TRUE, json |-> TRUE, keys |-> ConfigKeys, groups |-> groups, hide |-> hide]
NoConfig == [set |-> FALSE, groups |-> <<>>, hide |-> "unset"]

FileGroup(id, parentId, isGlobal, order) ==
    [id |-> id, parentId |-> parentId, isGlobal |-> isGlobal, order |-> order, pinned |-> FALSE,
     files |-> <<>>]

shouldHideGlobalGroups(st) == st.cfg.hide = "yes"

getGlobalGroups(st) == [i \in DOMAIN st.gc |-> [st.gc[i] EXCEPT !.isGlobal = TRUE]]

\* A faulty variant of getGroups that ignores the hide setting.
getGroupsUnfiltered(st) ==
    getGlobalGroups(st) \o [i \in DOMAIN st.lc |-> [st.lc[i] EXCEPT !.isGlobal = FALSE]]

getGroups(st) ==
    LET normalizedLocal == [i \in DOMAIN st.lc |-> [st.lc[i] EXCEPT !.isGlobal = FALSE]]
    IN  IF ~shouldHideGlobalGroups(st)
        THEN getGlobalGroups(st) \o normalizedLocal
        ELSE normalizedLocal

getGroup(st, groupId) ==
    LET gs == getGroups(st)
        i == IndexOfId(gs, groupId)
    IN  IF i = 0 THEN <<>> ELSE <<gs[i]>>

getSubgroups(st, parentId) == SelectSeq(getGroups(st), LAMBDA g : g.parentId = parentId)

getRootGroups(st) == SelectSeq(getGroups(st), LAMBDA g : g.parentId = NoParent)

\* The four writes of one saveGroups call, in the order the code makes them.
portableGroups(groups) ==
    [i \in DOMAIN groups |->
        [groups[i] EXCEPT !.files =
            [j \in DOMAIN groups[i].files |->
                [groups[i].files[j] EXCEPT !.path = ToRelativePath(@, Root)]]]]

writeLocalCache(st, localGroups) == [st EXCEPT !.lc = localGroups]

saveToFile(st, localGroups) ==
    [st EXCEPT !.lf = Artifact(portableGroups(localGroups), "unset")]

\* A faulty variant of the guard of saveGlobalGroups that is always true.
savesGlobalAlways(st, globalGroups) == Len(globalGroups) >= 0

\* A faulty variant of the guard of saveGlobalGroups that skips an empty list.
savesGlobalWhenAny(st, globalGroups) == Len(globalGroups) > 0

savesGlobal(st, globalGroups) == Len(globalGroups) > 0 \/ Len(getGlobalGroups(st)) > 0

writeGlobalCache(st, globalGroups) ==
    [st EXCEPT !.gc = [i \in DOMAIN globalGroups |-> [globalGroups[i] EXCEPT !.isGlobal = TRUE]]]

saveToGlobalFile(st, globalGroups) ==
    [st EXCEPT !.gf = Artifact([i \in DOMAIN globalGroups |->
                                   [globalGroups[i] EXCEPT !.isGlobal = TRUE]], "unset")]

saveGlobalGroups(st, groups) == saveToGlobalFile(writeGlobalCache(st, groups), groups)

saveGroups(st, groups) ==
    LET localGroups == SelectSeq(groups, LAMBDA g : ~g.isGlobal)
        globalGroups == SelectSeq(groups, LAMBDA g : g.isGlobal)
        st2 == saveToFile(writeLocalCache(st, localGroups), localGroups)
    IN  IF savesGlobal(st2, globalGroups) THEN saveGlobalGroups(st2, globalGroups) ELSE st2

\* saveGroups when a writeFile may throw: saveToFile and saveToGlobalFile
\* catch the error and log it, the artifact stays as it was.
saveGroupsWriting(st, groups, localWritten, globalWritten) ==
    LET localGroups == SelectSeq(groups, LAMBDA g : ~g.isGlobal)
        globalGroups == SelectSeq(groups, LAMBDA g : g.isGlobal)
        st1 == writeLocalCache(st, localGroups)
        st2 == IF localWritten THEN saveToFile(st1, localGroups) ELSE st1
        st3 == writeGlobalCache(st2, globalGroups)
    IN  IF ~savesGlobal(st2, globalGroups) THEN st2
        ELSE IF globalWritten THEN saveToGlobalFile(st3, globalGroups)
        ELSE st3

setHideGlobalGroups(st, hide) ==
    LET config == [set |-> TRUE, groups |-> st.cfg.groups, hide |-> IF hide THEN "yes" ELSE "no"]
    IN  [st EXCEPT !.cfg = config,
                   !.lf = Artifact(config.groups, config.hide)]

\* ------------------------------------------------------ forest traversal
RECURSIVE findChildren(_, _, _)
findChildren(parentId, groups, fuel) ==
    IF fuel = 0 THEN {}
    ELSE UNION { {groups[i].id} \cup findChildren(groups[i].id, groups, fuel - 1) :
                 i \in {j \in DOMAIN groups : groups[j].parentId = parentId} }

getGroupAndChildIds(groupId, groups) ==
    {groupId} \cup findChildren(groupId, groups, Len(groups))

RECURSIVE walkUp(_, _, _, _)
walkUp(current, ancestorId, groups, fuel) ==
    IF current = <<>> \/ current[1].parentId = NoParent \/ fuel = 0 THEN FALSE
    ELSE IF current[1].parentId = ancestorId THEN TRUE
    ELSE LET i == IndexOfId(groups, current[1].parentId)
         IN  walkUp(IF i = 0 THEN <<>> ELSE <<groups[i]>>, ancestorId, groups, fuel - 1)

\* A faulty variant of isDescendant that looks at the direct parent only.
isDescendantParentOnly(st, potentialDescendantId, ancestorId) ==
    \E g \in Range(getGroups(st)) : g.id = potentialDescendantId /\ g.parentId = ancestorId

isDescendant(st, potentialDescendantId, ancestorId) ==
    LET groups == getGroups(st)
        i == IndexOfId(groups, potentialDescendantId)
    IN  walkUp(IF i = 0 THEN <<>> ELSE <<groups[i]>>, ancestorId, groups, Len(groups) + 1)

getAllFilesInGroup(st, groupId) ==
    LET groups == getGroups(st)
        idsToInclude == getGroupAndChildIds(groupId, groups)
        picked == SelectSeq(groups, LAMBDA g : g.id \in idsToInclude)
        Cat[i \in 0..Len(picked)] == IF i = 0 THEN <<>> ELSE Cat[i - 1] \o picked[i].files
    IN  Cat[Len(picked)]

\* --------------------------------------------- StorageService operations
(***************************************************************************)
(* A call is a record [k, id, a, b] naming a StorageService method and its *)
(* arguments.  Plan(st, call) is what the method computes before its one   *)
(* saveGroups call: whether it saves, the array it passes, what it         *)
(* returns (res), and, for one iteration of the group-drop loop, the       *)
(* calls that iteration goes on to make (more).                            *)
(***************************************************************************)
Call(k, id, a, b) == [k |-> k, id |-> id, a |-> a, b |-> b]

\* { ...g, ...updates }
Merge(g, updates) ==
    [f \in DOMAIN g \cup DOMAIN updates |-> IF f \in DOMAIN updates THEN updates[f] ELSE g[f]]

HasPath(files, path) == \E i \in DOMAIN files : files[i].path = path

RECURSIVE pushNew(_, _)
pushNew(groupFiles, files) ==
    IF files = <<>> THEN groupFiles
    ELSE IF HasPath(groupFiles, Head(files).path) THEN pushNew(groupFiles, Tail(files))
    ELSE pushNew(Append(groupFiles, Head(files)), Tail(files))

NoSave(res) == [save |-> FALSE, groups |-> <<>>, res |-> res, more |-> <<>>]
Save(groups, res) == [save |-> TRUE, groups |-> groups, res |-> res, more |-> <<>>]

createGroup(st, group) == Save(Append(getGroups(st), group), "created")

updateGroup(st, groupId, updates) ==
    LET groups == getGroups(st)
        index == IndexOfId(groups, groupId)
    IN  IF index # 0
        THEN Save([groups EXCEPT ![index] = Merge(@, updates)], "updated")
        ELSE NoSave("missing")

deleteGroup(st, groupId) ==
    LET groups == getGroups(st)
        idsToDelete == getGroupAndChildIds(groupId, groups)
    IN  Save(SelectSeq(groups, LAMBDA g : g.id \notin idsToDelete), "deleted")

updateGroupRecursive(st, groupId, updates) ==
    LET groups == getGroups(st)
        idsToUpdate == getGroupAndChildIds(groupId, groups)
    IN  Save([i \in DOMAIN groups |->
                IF groups[i].id \in idsToUpdate THEN Merge(groups[i], updates) ELSE groups[i]],
             "updated")

addFileToGroup(st, groupId, file) ==
    LET groups == getGroups(st)
        i == IndexOfId(groups, groupId)
    IN  IF i # 0 /\ ~HasPath(groups[i].files, file.path)
        THEN Save([groups EXCEPT ![i].files = Append(@, file)], TRUE)
        ELSE NoSave(FALSE)

addFilesToGroup(st, groupId, files) ==
    LET groups == getGroups(st)
        i == IndexOfId(groups, groupId)
        pushed == IF i = 0 THEN <<>> ELSE pushNew(groups[i].files, files)
        addedCount == IF i = 0 THEN 0 ELSE Len(pushed) - Len(groups[i].files)
    IN  IF addedCount > 0
        THEN Save([groups EXCEPT ![i].files = pushed], addedCount)
        ELSE NoSave(addedCount)

removeFileFromGroup(st, groupId, filePath) ==
    LET groups == getGroups(st)
        i == IndexOfId(groups, groupId)
    IN  IF i # 0
        THEN Save([groups EXCEPT ![i].files = SelectSeq(@, LAMBDA f : f.path # filePath)], "removed")
        ELSE NoSave("missing")

\* targetFilePath is <<>> for null.
reorderFilesInGroup(st, groupId, draggedFilePath, targetFilePath) ==
    LET groups == getGroups(st)
        i == IndexOfId(groups, groupId)
        files == IF i = 0 THEN <<>> ELSE groups[i].files
        draggedIndex == IndexOfPath(files, draggedFilePath)
        spliced == RemoveAt(files, draggedIndex)
        targetIndex == IndexOfPath(spliced, targetFilePath)
        placed == IF targetFilePath = <<>> \/ targetIndex = 0
                  THEN Append(spliced, files[draggedIndex])
                  ELSE InsertAt(spliced, targetIndex, files[draggedIndex])
    IN  IF i = 0 THEN NoSave("missing")
        ELSE IF draggedIndex = 0 THEN NoSave("notmember")
        ELSE Save([groups EXCEPT ![i].files = placed], "reordered")

\* groupIds.map(...).filter(...): the named groups that exist, each with the
\* index of its id in groupIds as order.
RECURSIVE reorderedFrom(_, _, _)
reorderedFrom(groupIds, groups, index) ==
    IF groupIds = <<>> THEN <<>>
    ELSE (IF IndexOfId(groups, Head(groupIds)) # 0
          THEN <<[groups[IndexOfId(groups, Head(groupIds))] EXCEPT !.order = index]>>
          ELSE <<>>)
         \o reorderedFrom(Tail(groupIds), groups, index + 1)

\* The i-th remaining group is given reordered.length + i while reordered
\* already holds the i remaining groups pushed before it.
reorderGroups(st, groupIds) ==
    LET groups == getGroups(st)
        reordered == reorderedFrom(groupIds, groups, 0)
        remainingGroups == SelectSeq(groups, LAMBDA g : g.id \notin Range(groupIds))
    IN  Save(reordered \o [i \in DOMAIN remainingGroups |->
                              [remainingGroups[i] EXCEPT
                                  !.order = (Len(reordered) + (i - 1)) + (i - 1)]],
             "reordered")

\* One iteration of handleGroupDrop's loop over the dragged groups, for a
\* target that is a group: the self and cycle checks read the stores as they
\* are when the iteration starts; isGlobal and the ids are the tree items'.
acceptedDrop(draggedGroup, targetGroup) ==
    [NoSave("accepted") EXCEPT !.more =
        (IF targetGroup.isGlobal # draggedGroup.isGlobal
         THEN <<Call("updateGroupRecursive", draggedGroup.id, [isGlobal |-> targetGroup.isGlobal], 0)>>
         ELSE <<>>)
        \o <<Call("updateGroup", draggedGroup.id, [parentId |-> targetGroup.id], 0)>>]

\* A faulty variant of dropItem without the self-drop check.
dropItemNoSelfCheck(st, draggedGroup, targetGroup) ==
    IF isDescendant(st, targetGroup.id, draggedGroup.id) THEN NoSave("cycle")
    ELSE acceptedDrop(draggedGroup, targetGroup)

dropItem(st, draggedGroup, targetGroup) ==
    IF draggedGroup.id = targetGroup.id THEN NoSave("self")
    ELSE IF isDescendant(st, targetGroup.id, draggedGroup.id) THEN NoSave("cycle")
    ELSE acceptedDrop(draggedGroup, targetGroup)

Plan(st, c) ==
    CASE c.k = "createGroup" -> createGroup(st, c.a)
      [] c.k = "updateGroup" -> updateGroup(st, c.id, c.a)
      [] c.k = "deleteGroup" -> deleteGroup(st, c.id)
      [] c.k = "updateGroupRecursive" -> updateGroupRecursive(st, c.id, c.a)
      [] c.k = "addFileToGroup" -> addFileToGroup(st, c.id, c.a)
      [] c.k = "addFilesToGroup" -> addFilesToGroup(st, c.id, c.a)
      [] c.k = "removeFileFromGroup" -> removeFileFromGroup(st, c.id, c.a)
      [] c.k = "reorderFilesInGroup" -> reorderFilesInGroup(st, c.id, c.a, c.b)
      [] c.k = "saveGroups" -> Save(c.a, "saved")
      [] c.k = "dropItem" -> dropItem(st, c.a, c.b)

\* A handler run to completion: its calls in order, each with its save.
RECURSIVE RunScript(_, _)
Results(res, r) == [st |-> r.st, res |-> <<res>> \o r.res]

ThenRun(st, p, rest) ==
    Results(p.res, RunScript(IF p.save THEN saveGroups(st, p.groups) ELSE st, p.more \o rest))

RunScript(st, script) ==
    IF script = <<>> THEN [st |-> st, res |-> <<>>]
    ELSE ThenRun(st, Plan(st, Head(script)), Tail(script))

\* ------------------------------------------------------------- the state
\* lim holds the bounds of the specification being run and the handlers it
\* keeps a note of; last names the noted handler that ran last (any other
\* handler is "other") with what its calls returned.  codec is a path on its
\* way through toRelativePath and toAbsolutePath (CodecSpec only).
VARIABLES localCache, localFile, globalCache, globalFile, config, nextId,
          last, pc, saveArg, todo, lim, codec, walk, watch, saves

storeVars == <<localCache, localFile, globalCache, globalFile, config>>
vars == <<localCache, localFile, globalCache, globalFile, config, nextId,
          last, pc, saveArg, todo, lim, codec, walk, watch, saves>>

Store == [lc |-> localCache, lf |-> localFile, gc |-> globalCache,
          gf |-> globalFile, cfg |-> config]

SetStore(st) ==
    /\ localCache' = st.lc
    /\ localFile' = st.lf
    /\ globalCache' = st.gc
    /\ globalFile' = st.gf
    /\ config' = st.cfg

\* activate() awaits loadFromFile before anything else: a local artifact that
\* parses replaces the local cache, and its hideGlobalGroups, when present,
\* becomes the workspace's setting.
loadedGroups(groups) ==
    [i \in DOMAIN groups |->
        [groups[i] EXCEPT !.files =
            [j \in DOMAIN groups[i].files |->
                [groups[i].files[j] EXCEPT !.path = ToAbsolutePath(@, Root, PosixSep)]]]]

\* A faulty variant of the test that asks for the groups only.
loadableWithGroups(file) == file.exists /\ file.json /\ "groups" \in file.keys

\* Whether a load gets past readFile, JSON.parse and the test
\* config.version && config.groups, that is, returns true.
loadable(file) == file.exists /\ file.json /\ ConfigKeys \subseteq file.keys

\* The artifacts a load gives up on, holding the given groups and setting:
\* missing, not JSON, or without a version or a groups field.
Unloadable(groups, hide) ==
    {NoFile} \cup ({[Artifact(groups, hide) EXCEPT !.json = json, !.keys = keys] :
                       json \in BOOLEAN, keys \in SUBSET ConfigKeys} \ {Artifact(groups, hide)})

loadFromFile(st) ==
    IF ~loadable(st.lf) THEN st
    ELSE [st EXCEPT !.lc = loadedGroups(st.lf.groups),
                    !.cfg = IF st.lf.hide = "unset" THEN @
                            ELSE [set |-> TRUE, groups |-> loadedGroups(st.lf.groups),
                                  hide |-> st.lf.hide]]

loadFromGlobalFile(st) ==
    IF ~loadable(st.gf) THEN st
    ELSE [st EXCEPT !.gc = [i \in DOMAIN st.gf.groups |-> [st.gf.groups[i] EXCEPT !.isGlobal = TRUE]]]

\* The global store outlives the workspace: at activation it is empty or
\* already holds a group made in another workspace.  The local artifact is
\* absent or damaged, or is one that was committed with hideGlobalGroups
\* set to true and with no group or one group.  seeds are the member lists
\* the pre-existing global group may have.
ActivatedWith(seeds) ==
    /\ \E n \in 0..1 : \E k \in 0..1 : \E committed \in BOOLEAN : \E seed \in seeds :
       \E damaged \in Unloadable(<<>>, "yes") :
          LET gs == [i \in 1..n |-> [FileGroup(i, NoParent, TRUE, i - 1) EXCEPT !.files = seed]]
              ls == [i \in 1..k |-> FileGroup(n + i, NoParent, FALSE, i - 1)]
              st == loadFromFile(
                        [lc |-> <<>>,
                         lf |-> IF committed
                                THEN Artifact(ls, "yes")
                                ELSE damaged,
                         gc |-> gs,
                         gf |-> IF n = 0 THEN NoFile
                                ELSE Artifact(gs, "unset"),
                         cfg |-> NoConfig])
          IN  /\ committed \/ k = 0
              /\ n = 1 \/ seed = <<>>
              /\ localCache = st.lc
              /\ localFile = st.lf
              /\ globalCache = st.gc
              /\ globalFile = st.gf
              /\ config = st.cfg
              /\ nextId = n + k + 1
    /\ last = [op |-> "activate", res |-> <<>>]
    /\ pc = "idle"
    /\ saveArg = <<>>
    /\ todo = <<>>

Activated == ActivatedWith({<<>>})

NoCodec == [stage |-> "none"]
NoWalk == [stage |-> "none"]
NoSaves == <<>>
NoWatch == [dirty |-> FALSE, owed |-> FALSE, external |-> {}]

Init ==
    /\ Activated
    /\ lim = [groups |-> MaxGroups, members |-> MaxMembers, drag |-> MaxDrag, steps |-> FALSE,
              noted |-> {"dropOnGroup"}, paths |-> Paths]
    /\ codec = NoCodec
    /\ walk = NoWalk
    /\ watch = NoWatch
    /\ saves = NoSaves

MemberInit ==
    /\ ActivatedWith({<<>>, <<GroupFile(PathB)>>, <<GroupFile(PathB), GroupFile(PathA)>>})
    /\ lim = [groups |-> MemberGroups, members |-> MemberMembers, drag |-> MemberDrag, steps |-> FALSE,
              noted |-> {"addFiles", "onDidRenameFiles", "cleanupMissingFiles"}, paths |-> MemberPaths]
    /\ codec = NoCodec
    /\ walk = NoWalk
    /\ watch = NoWatch
    /\ saves = NoSaves

TreeInit ==
    /\ Activated
    /\ lim = [groups |-> TreeGroups, members |-> TreeMembers, drag |-> TreeDrag, steps |-> FALSE,
              noted |-> {"pinGroup"}, paths |-> Paths]
    /\ codec = NoCodec
    /\ walk = NoWalk
    /\ watch = NoWatch
    /\ saves = NoSaves

StepInit ==
    /\ Activated
    /\ lim = [groups |-> StepGroups, members |-> StepMembers, drag |-> StepDrag, steps |-> TRUE,
              noted |-> {"dropOnEmpty"}, paths |-> Paths]
    /\ codec = NoCodec
    /\ walk = NoWalk
    /\ watch = NoWatch
    /\ saves = NoSaves

\* ------------------------------------------------------ the tree's items
\* FileGroupsProvider.getChildren applied from the root: the group items a
\* command or a drop can name.  The section and its global root groups come
\* from getGlobalGroups, everything else from getGroups.
rootItems(st) == {g \in Range(getRootGroups(st)) : ~g.isGlobal}
sectionItems(st) == {g \in Range(getGlobalGroups(st)) : g.parentId = NoParent}
sectionShown(st) == sectionItems(st) # {}

\* A faulty comparator that looks at order only.
compareOrderOnly(a, b) == a.order - b.order

\* The comparator of the three sorts of getChildren: pinned first, then order.
comparePinnedThenOrder(a, b) ==
    IF a.pinned /\ ~b.pinned THEN 0 - 1
    ELSE IF ~a.pinned /\ b.pinned THEN 1
    ELSE a.order - b.order

\* Array.prototype.sort is stable: g goes behind every group it does not precede.
RECURSIVE sortedInsert(_, _)
sortedInsert(sorted, g) ==
    IF sorted = <<>> THEN <<g>>
    ELSE IF comparePinnedThenOrder(g, Head(sorted)) < 0 THEN <<g>> \o sorted
    ELSE <<Head(sorted)>> \o sortedInsert(Tail(sorted), g)

RECURSIVE sortGroups(_)
sortGroups(groups) ==
    IF groups = <<>> THEN <<>>
    ELSE sortedInsert(sortGroups(SubSeq(groups, 1, Len(groups) - 1)), groups[Len(groups)])

groupItem(group) == [itemType |-> "group", group |-> <<group>>]
sectionItem == [itemType |-> "section", group |-> <<>>]

\* getChildren() without an element: the root level of the tree.
getChildren(st) ==
    LET localGroups == sortGroups(SelectSeq(getRootGroups(st), LAMBDA g : ~g.isGlobal))
        globalGroups == SelectSeq(getGlobalGroups(st), LAMBDA g : g.parentId = NoParent)
    IN  [i \in DOMAIN localGroups |-> groupItem(localGroups[i])]
        \o (IF Len(globalGroups) > 0 THEN <<sectionItem>> ELSE <<>>)

RECURSIVE below(_, _, _)
below(st, items, fuel) ==
    IF fuel = 0 THEN items
    ELSE below(st, items \cup UNION {Range(getSubgroups(st, g.id)) : g \in items}, fuel - 1)

groupItems(st) == below(st, rootItems(st) \cup sectionItems(st), Len(st.lc) + Len(st.gc))

fileItems(st) ==
    UNION {{[group |-> g, file |-> g.files[i]] : i \in DOMAIN g.files} : g \in groupItems(st)}

TotalMembers(st) ==
    LET all == st.gc \o st.lc
        Sum[i \in 0..Len(all)] == IF i = 0 THEN 0 ELSE Sum[i - 1] + Len(all[i].files)
    IN  Sum[Len(all)]

\* The sequences of at most n elements of S.
RECURSIVE Picks(_, _)
Picks(S, n) ==
    IF n = 0 THEN {<<>>}
    ELSE LET shorter == Picks(S, n - 1)
         IN  shorter \cup {Append(q, x) : q \in {r \in shorter : Len(r) = n - 1}, x \in S}

DistinctPicks(S, n) == {q \in Picks(S, n) : q # <<>> /\ \A i, j \in DOMAIN q : i # j => q[i] # q[j]}

\* ------------------------------------------------------------- handlers
\* Each handler is the sequence of StorageService calls it awaits in turn.
createGroupScript(st, id) ==
    <<Call("createGroup", 0, FileGroup(id, NoParent, FALSE, Len(getGroups(st))), 0)>>

createSubgroupScript(st, id, item) ==
    <<Call("createGroup", 0, FileGroup(id, item.id, FALSE, Len(getGroups(st))), 0)>>

deleteGroupScript(item) == <<Call("deleteGroup", item.id, 0, 0)>>

pinGroupScript(targetGroup) == <<Call("updateGroup", targetGroup.id, [pinned |-> TRUE], 0)>>

unpinGroupScript(targetGroup) == <<Call("updateGroup", targetGroup.id, [pinned |-> FALSE], 0)>>

moveToRootScript(item) == <<Call("updateGroup", item.id, [parentId |-> NoParent], 0)>>

RECURSIVE dropOnSectionScript(_)
dropOnSectionScript(draggedGroups) ==
    IF draggedGroups = <<>> THEN <<>>
    ELSE <<Call("updateGroupRecursive", Head(draggedGroups).id, [isGlobal |-> TRUE], 0),
           Call("updateGroup", Head(draggedGroups).id, [parentId |-> NoParent], 0)>>
         \o dropOnSectionScript(Tail(draggedGroups))

RECURSIVE dropOnEmptyScript(_)
dropOnEmptyScript(draggedGroups) ==
    IF draggedGroups = <<>> THEN <<>>
    ELSE LET d == Head(draggedGroups)
         IN  (IF d.isGlobal
              THEN <<Call("updateGroupRecursive", d.id, [isGlobal |-> FALSE], 0)>> ELSE <<>>)
             \o (IF d.parentId # NoParent
                 THEN <<Call("updateGroup", d.id, [parentId |-> NoParent], 0)>> ELSE <<>>)
             \o dropOnEmptyScript(Tail(draggedGroups))

handleGroupDropScript(draggedGroups, targetGroup) ==
    [i \in DOMAIN draggedGroups |-> Call("dropItem", 0, draggedGroups[i], targetGroup)]

\* handleExternalFileDropToGlobal: a new global group, or an existing
\* global root group, receives the dropped files.
dropFilesOnSectionNewScript(st, id, files) ==
    <<Call("createGroup", 0, FileGroup(id, NoParent, TRUE, Len(getGroups(st))), 0),
      Call("addFilesToGroup", id, files, 0)>>

addFilesScript(targetGroup, files) == <<Call("addFilesToGroup", targetGroup.id, files, 0)>>

removeFileScript(item) == <<Call("removeFileFromGroup", item.group.id, item.file.path, 0)>>

RECURSIVE moveFilesScript(_, _)
moveFilesScript(draggedFiles, targetGroup) ==
    IF draggedFiles = <<>> THEN <<>>
    ELSE LET item == Head(draggedFiles)
         IN  (IF item.group.id # targetGroup.id
              THEN <<Call("removeFileFromGroup", item.group.id, item.file.path, 0),
                     Call("addFileToGroup", targetGroup.id, item.file, 0)>>
              ELSE <<>>)
             \o moveFilesScript(Tail(draggedFiles), targetGroup)

\* targetFile is <<>> when the drop is on the group row itself.
handleFileDropScript(draggedFiles, targetGroup, targetFile) ==
    IF Len(draggedFiles) = 1 /\ draggedFiles[1].group.id = targetGroup.id
    THEN <<Call("reorderFilesInGroup", targetGroup.id, draggedFiles[1].file.path,
                IF targetFile = <<>> THEN <<>> ELSE targetFile[1].path)>>
    ELSE moveFilesScript(draggedFiles, targetGroup)

onDidDeleteScript(st, deletedPath) ==
    LET groups == getGroups(st)
        changed == \E i \in DOMAIN groups : HasPath(groups[i].files, deletedPath)
        filtered == [i \in DOMAIN groups |->
                        [groups[i] EXCEPT !.files = SelectSeq(@, LAMBDA f : f.path # deletedPath)]]
    IN  IF changed THEN <<Call("saveGroups", 0, filtered, 0)>> ELSE <<>>

onDidRenameFilesScript(st, oldPath, newPath) ==
    LET groups == getGroups(st)
        changed == \E i \in DOMAIN groups : HasPath(groups[i].files, oldPath)
        renamed == [i \in DOMAIN groups |->
                      LET fileIndex == IndexOfPath(groups[i].files, oldPath)
                      IN  IF fileIndex # 0
                          THEN [groups[i] EXCEPT !.files[fileIndex] = GroupFile(newPath)]
                          ELSE groups[i]]
    IN  IF changed THEN <<Call("saveGroups", 0, renamed, 0)>> ELSE <<>>

\* fileGroups.cleanupMissingFiles; missing is the set of paths for which
\* fs.existsSync answers false while the command runs.
cleanedGroups(groups, missing) ==
    [i \in DOMAIN groups |->
        [groups[i] EXCEPT !.files = SelectSeq(@, LAMBDA f : f.path \notin missing)]]

RECURSIVE removedCount(_, _)
removedCount(groups, missing) ==
    IF groups = <<>> THEN 0
    ELSE Len(SelectSeq(Head(groups).files, LAMBDA f : f.path \in missing))
         + removedCount(Tail(groups), missing)

\* A faulty variant of the command that saves whether or not it removed a member.
cleanupAlwaysSavesScript(st, missing) ==
    <<Call("saveGroups", 0, cleanedGroups(getGroups(st), missing), 0)>>

cleanupMissingFilesScript(st, missing) ==
    IF removedCount(getGroups(st), missing) > 0
    THEN <<Call("saveGroups", 0, cleanedGroups(getGroups(st), missing), 0)>>
    ELSE <<>>

\* -------------------------------------------------------------- actions
\* Where lim.steps is FALSE a handler runs to completion in one step.  Where
\* it is TRUE the handler only starts: its calls are left in todo, and the
\* step actions below make each call and each write of its saveGroups.
Idle == pc = "idle" /\ todo = <<>> /\ UNCHANGED <<lim, codec, walk, watch, saves>>

Note(op, res) ==
    IF op \in lim.noted THEN [op |-> op, res |-> res] ELSE [op |-> "other", res |-> <<>>]

Run(op, script) ==
    IF lim.steps
    THEN /\ todo' = script
         /\ last' = Note(op, <<>>)
         /\ UNCHANGED <<storeVars, pc, saveArg>>
    ELSE LET r == RunScript(Store, script)
         IN  /\ SetStore(r.st)
             /\ last' = Note(op, r.res)
             /\ UNCHANGED <<pc, saveArg, todo>>

FileLists == {q \in Picks({GroupFile(p) : p \in lim.paths}, lim.members) : q # <<>>}

CreateGroupCmd ==
    /\ Idle /\ nextId <= lim.groups
    /\ Run("createGroup", createGroupScript(Store, nextId))
    /\ nextId' = nextId + 1

CreateSubgroupCmd ==
    /\ Idle /\ nextId <= lim.groups
    /\ \E item \in groupItems(Store) : Run("createSubgroup", createSubgroupScript(Store, nextId, item))
    /\ nextId' = nextId + 1

DeleteGroupOf(item) ==
    /\ Idle
    /\ Run("deleteGroup", deleteGroupScript(item))
    /\ UNCHANGED nextId

\* fileGroups.deleteGroup (a group item) and deleteGroupFromTitle (any group
\* of getGroups).
DeleteGroupCmd ==
    \E item \in groupItems(Store) \cup Range(getGroups(Store)) : DeleteGroupOf(item)

MoveToRootCmd ==
    /\ Idle
    /\ \E item \in groupItems(Store) :
          /\ item.parentId # NoParent
          /\ Run("moveToRoot", moveToRootScript(item))
    /\ UNCHANGED nextId

DropGroupsOnSection ==
    /\ Idle /\ sectionShown(Store)
    /\ \E draggedGroups \in DistinctPicks(groupItems(Store), lim.drag) :
          Run("dropOnSection", dropOnSectionScript(draggedGroups))
    /\ UNCHANGED nextId

DropGroupsOnEmpty ==
    /\ Idle
    /\ \E draggedGroups \in DistinctPicks(groupItems(Store), lim.drag) :
          Run("dropOnEmpty", dropOnEmptyScript(draggedGroups))
    /\ UNCHANGED nextId

DropOnGroup(draggedGroups, target) ==
    /\ Idle
    /\ Run("dropOnGroup", handleGroupDropScript(draggedGroups, target))
    /\ UNCHANGED nextId

DropGroupsOnGroup ==
    \E draggedGroups \in DistinctPicks(groupItems(Store), lim.drag) :
       \E target \in groupItems(Store) : DropOnGroup(draggedGroups, target)

DropFilesOnSectionNew ==
    /\ Idle /\ sectionShown(Store) /\ nextId <= lim.groups
    /\ \E files \in FileLists :
          /\ TotalMembers(Store) + Len(files) <= lim.members
          /\ Run("dropFilesOnSection", dropFilesOnSectionNewScript(Store, nextId, files))
    /\ nextId' = nextId + 1

\* fileGroups.addFile (any group of getGroups), handleExternalFileDrop (a
\* group item) and handleExternalFileDropToGlobal with an existing group.
AddFilesTo(target, files) ==
    /\ Idle
    /\ TotalMembers(Store) + Len(files) <= lim.members
    /\ Run("addFiles", addFilesScript(target, files))
    /\ UNCHANGED nextId

AddFilesCmd ==
    \E target \in groupItems(Store) \cup Range(getGroups(Store)) :
       \E files \in FileLists : AddFilesTo(target, files)

RemoveFileCmd ==
    /\ Idle
    /\ \E item \in fileItems(Store) : Run("removeFile", removeFileScript(item))
    /\ UNCHANGED nextId

DropFilesOnGroup ==
    /\ Idle
    /\ \E draggedFiles \in DistinctPicks(fileItems(Store), lim.drag) :
          \E target \in groupItems(Store) :
             \E targetFile \in {<<>>} \cup {<<f>> : f \in Range(target.files)} :
                Run("dropFiles", handleFileDropScript(draggedFiles, target, targetFile))
    /\ UNCHANGED nextId

OnDidDelete ==
    /\ Idle
    /\ \E deletedPath \in lim.paths : Run("onDidDelete", onDidDeleteScript(Store, deletedPath))
    /\ UNCHANGED nextId

OnDidRenameFiles ==
    /\ Idle
    /\ \E oldPath \in lim.paths : \E newPath \in lim.paths \ {oldPath} :
          Run("onDidRenameFiles", onDidRenameFilesScript(Store, oldPath, newPath))
    /\ UNCHANGED nextId

CleanupMissingFilesCmd ==
    /\ Idle
    /\ \E missing \in SUBSET lim.paths :
          Run("cleanupMissingFiles", cleanupMissingFilesScript(Store, missing))
    /\ UNCHANGED nextId

SetHideGlobalGroupsCmd ==
    /\ Idle
    /\ \E hide \in BOOLEAN :
          /\ SetStore(setHideGlobalGroups(Store, hide))
          /\ last' = Note("setHideGlobalGroups", <<hide>>)
    /\ UNCHANGED <<nextId, pc, saveArg, todo>>

Next ==
    \/ CreateGroupCmd
    \/ CreateSubgroupCmd
    \/ DeleteGroupCmd
    \/ MoveToRootCmd
    \/ DropGroupsOnSection
    \/ DropGroupsOnEmpty
    \/ DropGroupsOnGroup
    \/ DropFilesOnSectionNew
    \/ AddFilesCmd
    \/ RemoveFileCmd
    \/ DropFilesOnGroup
    \/ OnDidDelete
    \/ OnDidRenameFiles
    \/ CleanupMissingFilesCmd
    \/ SetHideGlobalGroupsCmd

Spec == Init /\ [][Next]_vars

\* ---------------------------------------------------------- step actions
\* The next call of the running handler: what it computes up to its save.
CallStep ==
    /\ pc = "idle" /\ todo # <<>>
    /\ LET p == Plan(Store, Head(todo))
       IN  /\ todo' = p.more \o Tail(todo)
           /\ pc' = IF p.save THEN "writeLocalCache" ELSE "idle"
           /\ saveArg' = IF p.save THEN p.groups ELSE <<>>
           /\ last' = IF last.op = "other" THEN last ELSE [last EXCEPT !.res = Append(@, p.res)]
    /\ UNCHANGED <<storeVars, nextId, lim, codec, walk, watch, saves>>

WriteLocalCacheStep ==
    /\ pc = "writeLocalCache"
    /\ SetStore(writeLocalCache(Store, SelectSeq(saveArg, LAMBDA g : ~g.isGlobal)))
    /\ pc' = "writeLocalFile"
    /\ UNCHANGED <<nextId, last, saveArg, todo, lim, codec, walk, watch, saves>>

WriteLocalFileStep ==
    /\ pc = "writeLocalFile"
    /\ LET st2 == saveToFile(Store, SelectSeq(saveArg, LAMBDA g : ~g.isGlobal))
           more == savesGlobal(st2, SelectSeq(saveArg, LAMBDA g : g.isGlobal))
       IN  /\ SetStore(st2)
           /\ pc' = IF more THEN "writeGlobalCache" ELSE "idle"
           /\ saveArg' = IF more THEN saveArg ELSE <<>>
    /\ UNCHANGED <<nextId, last, todo, lim, codec, walk, watch, saves>>

WriteGlobalCacheStep ==
    /\ pc = "writeGlobalCache"
    /\ SetStore(writeGlobalCache(Store, SelectSeq(saveArg, LAMBDA g : g.isGlobal)))
    /\ pc' = "writeGlobalFile"
    /\ UNCHANGED <<nextId, last, saveArg, todo, lim, codec, walk, watch, saves>>

WriteGlobalFileStep ==
    /\ pc = "writeGlobalFile"
    /\ SetStore(saveToGlobalFile(Store, SelectSeq(saveArg, LAMBDA g : g.isGlobal)))
    /\ pc' = "idle"
    /\ saveArg' = <<>>
    /\ UNCHANGED <<nextId, last, todo, lim, codec, walk, watch, saves>>

StepNext ==
    \/ Next
    \/ CallStep
    \/ WriteLocalCacheStep
    \/ WriteLocalFileStep
    \/ WriteGlobalCacheStep
    \/ WriteGlobalFileStep

StepSpec == StepInit /\ [][StepNext]_vars

MemberSpec == MemberInit /\ [][Next]_vars

\* fileGroups.pinGroup and fileGroups.unpinGroup: a group item of the tree,
\* or a group picked from getGroups.
PinGroupCmd ==
    /\ Idle
    /\ \E targetGroup \in groupItems(Store) \cup Range(getGroups(Store)) :
          Run("pinGroup", pinGroupScript(targetGroup))
    /\ UNCHANGED nextId

UnpinGroupCmd ==
    /\ Idle
    /\ \E targetGroup \in groupItems(Store) \cup Range(getGroups(Store)) :
          Run("unpinGroup", unpinGroupScript(targetGroup))
    /\ UNCHANGED nextId

TreeNext ==
    \/ Next
    \/ PinGroupCmd
    \/ UnpinGroupCmd

TreeSpec == TreeInit /\ [][TreeNext]_vars

\* ------------------------------------------------------------ path codec
\* A path on a POSIX or a Windows host, written to the local artifact
\* (toRelativePath) and read back (toAbsolutePath).  The path is strictly
\* under the workspace root ("under"), or in a directory whose name only
\* starts with the root's ("sibling"), or under another directory
\* ("elsewhere").  A tail is one or more non-empty segments.
Platforms == {[sep |-> "/", root |-> Root, other |-> <<"/", "o">>, chars |-> {"a", "b", ":"}],
              [sep |-> "\\", root |-> WinRoot, other |-> <<"D", ":", "\\", "o">>,
               chars |-> {"a", "b"}]}

Places == {"under", "sibling", "elsewhere"}

PathAt(pf, place, tail) ==
    CASE place = "under" -> pf.root \o <<pf.sep>> \o tail
      [] place = "sibling" -> pf.root \o tail
      [] place = "elsewhere" -> pf.other \o <<pf.sep>> \o tail

Tails(sep, chars, n) ==
    {t \in Picks(chars \cup {sep}, n) :
        /\ t # <<>> /\ t[1] # sep /\ t[Len(t)] # sep
        /\ \A i \in 1..(Len(t) - 1) : ~(t[i] = sep /\ t[i + 1] = sep)}

CodecInit ==
    /\ localCache = <<>> /\ localFile = NoFile
    /\ globalCache = <<>> /\ globalFile = NoFile
    /\ config = NoConfig
    /\ nextId = 1
    /\ last = [op |-> "activate", res |-> <<>>]
    /\ pc = "idle" /\ saveArg = <<>> /\ todo = <<>>
    /\ lim = [groups |-> 0, members |-> 0, drag |-> 0, steps |-> FALSE, noted |-> {},
              paths |-> {}]
    /\ walk = NoWalk
    /\ watch = NoWatch
    /\ saves = NoSaves
    /\ \E pf \in Platforms : \E place \in Places : \E tail \in Tails(pf.sep, pf.chars, MaxTail) :
          codec = [stage |-> "absolute", sep |-> pf.sep, root |-> pf.root, place |-> place,
                   p |-> PathAt(pf, place, tail)]

ToRelativeStep ==
    /\ codec.stage = "absolute"
    /\ codec' = [stage |-> "relative", sep |-> codec.sep, root |-> codec.root,
                 place |-> codec.place, p |-> codec.p,
                 rel |-> ToRelativePath(codec.p, codec.root)]
    /\ UNCHANGED <<storeVars, nextId, last, pc, saveArg, todo, lim, walk, watch, saves>>

ToAbsoluteStep ==
    /\ codec.stage = "relative"
    /\ codec' = [stage |-> "back", sep |-> codec.sep, root |-> codec.root,
                 place |-> codec.place, p |-> codec.p, rel |-> codec.rel,
                 back |-> ToAbsolutePath(codec.rel, codec.root, codec.sep)]
    /\ UNCHANGED <<storeVars, nextId, last, pc, saveArg, todo, lim, walk, watch, saves>>

CodecNext ==
    \/ ToRelativeStep
    \/ ToAbsoluteStep

CodecSpec == CodecInit /\ [][CodecNext]_vars

\* ------------------------------------------------------ forest traversal, stepwise
\* getGroupAndChildIds and isDescendant run one iteration at a time over the
\* groups of a local artifact as loadFromFile stores them: the parentId
\* links are whatever the artifact holds.  stack holds, per open call of
\* findChildren, the children its forEach has still to visit; a call beyond
\* StackLimit frames ends the traversal with the engine's RangeError.
childIds(parentId, groups) ==
    LET children == SelectSeq(groups, LAMBDA g : g.parentId = parentId)
    IN  [i \in DOMAIN children |-> children[i].id]

find(groups, id) ==
    LET i == IndexOfId(groups, id)
    IN  IF i = 0 THEN <<>> ELSE <<groups[i]>>

WalkInit ==
    /\ \E n \in 1..MaxLoaded : \E parents \in [1..n -> 0..n] :
          LET st == loadFromFile(
                        [lc |-> <<>>,
                         lf |-> Artifact([i \in 1..n |-> FileGroup(i, parents[i], FALSE, i - 1)],
                                         "unset"),
                         gc |-> <<>>, gf |-> NoFile, cfg |-> NoConfig])
          IN  /\ localCache = st.lc /\ localFile = st.lf
              /\ globalCache = st.gc /\ globalFile = st.gf
              /\ config = st.cfg
              /\ nextId = n + 1
              /\ \/ \E groupId \in 1..n :
                        walk = [op |-> "getGroupAndChildIds", stage |-> "running",
                                groupId |-> groupId, ids |-> {groupId},
                                stack |-> <<childIds(groupId, getGroups(st))>>]
                 \/ \E potentialDescendantId \in 1..n : \E ancestorId \in 1..n :
                        walk = [op |-> "isDescendant", stage |-> "running",
                                potentialDescendantId |-> potentialDescendantId,
                                ancestorId |-> ancestorId,
                                current |-> find(getGroups(st), potentialDescendantId)]
    /\ last = [op |-> "activate", res |-> <<>>]
    /\ pc = "idle" /\ saveArg = <<>> /\ todo = <<>>
    /\ lim = [groups |-> MaxLoaded, members |-> 0, drag |-> 0, steps |-> FALSE, noted |-> {},
              paths |-> {}]
    /\ codec = NoCodec
    /\ watch = NoWatch
    /\ saves = NoSaves

\* One step of findChildren: the forEach visits the next child (ids.add and
\* the recursive call), or the call at the top of the stack returns.
FindChildrenStep ==
    /\ walk.op = "getGroupAndChildIds" /\ walk.stage = "running"
    /\ LET depth == Len(walk.stack)
           top == walk.stack[depth]
       IN  IF top = <<>>
           THEN walk' = IF depth = 1 THEN [walk EXCEPT !.stage = "returned", !.stack = <<>>]
                        ELSE [walk EXCEPT !.stack = SubSeq(@, 1, depth - 1)]
           ELSE IF depth = StackLimit
                THEN walk' = [walk EXCEPT !.stage = "RangeError", !.ids = @ \cup {Head(top)}]
                ELSE walk' = [walk EXCEPT
                                !.ids = @ \cup {Head(top)},
                                !.stack = Append([@ EXCEPT ![depth] = Tail(top)],
                                                 childIds(Head(top), getGroups(Store)))]
    /\ UNCHANGED <<storeVars, nextId, last, pc, saveArg, todo, lim, codec, watch, saves>>

\* One evaluation of the while condition of isDescendant and of its body.
IsDescendantStep ==
    /\ walk.op = "isDescendant" /\ walk.stage = "running"
    /\ IF walk.current = <<>> \/ walk.current[1].parentId = NoParent
       THEN walk' = [op |-> "isDescendant", stage |-> "returned", res |-> FALSE,
                     potentialDescendantId |-> walk.potentialDescendantId,
                     ancestorId |-> walk.ancestorId, current |-> walk.current]
       ELSE IF walk.current[1].parentId = walk.ancestorId
       THEN walk' = [op |-> "isDescendant", stage |-> "returned", res |-> TRUE,
                     potentialDescendantId |-> walk.potentialDescendantId,
                     ancestorId |-> walk.ancestorId, current |-> walk.current]
       ELSE walk' = [walk EXCEPT !.current = find(getGroups(Store), walk.current[1].parentId)]
    /\ UNCHANGED <<storeVars, nextId, last, pc, saveArg, todo, lim, codec, watch, saves>>

WalkNext ==
    \/ FindChildrenStep
    \/ IsDescendantStep

\* The engine runs a started call on: a traversal that can step does step.
WalkSpec == WalkInit /\ [][WalkNext]_vars /\ WF_vars(WalkNext)

\* ------------------------------------------------------------ change events
\* The store's onDidChange event.  It is fired by the watchers of the two
\* artifacts and by setHideGlobalGroups, by nothing else.  watch.dirty: an
\* artifact was written and its watcher has not called back yet; watch.owed:
\* a save has completed and onDidChange has not fired since.  A writeFile
\* may throw: the save then leaves the artifact as it was.
NotifyInit ==
    /\ Activated
    /\ lim = [groups |-> NotifyGroups, members |-> 1, drag |-> 0, steps |-> FALSE, noted |-> {},
              paths |-> Paths]
    /\ codec = NoCodec
    /\ walk = NoWalk
    /\ watch = NoWatch
    /\ saves = NoSaves

\* The lists handed to a save: at most NotifyGroups groups, out of the
\* stored ones and a new one, with either flag.
NotifyArgs ==
    LET fresh == [FileGroup(nextId, NoParent, FALSE, 0) EXCEPT !.files = <<GroupFile(PathA)>>]
    IN  Picks({[g EXCEPT !.isGlobal = b] : g \in Range(getGroups(Store)) \cup {fresh},
                                            b \in BOOLEAN}, NotifyGroups)

\* The artifacts a saveGroups call has written.
Written(groups, localWritten, globalWritten) ==
    {s \in {"local"} : localWritten}
    \cup {s \in {"global"} : globalWritten /\ savesGlobal(Store, SelectSeq(groups, LAMBDA g : g.isGlobal))}

SaveGroupsCall ==
    /\ pc = "idle" /\ todo = <<>>
    /\ \E groups \in NotifyArgs : \E localWritten, globalWritten \in BOOLEAN :
          /\ SetStore(saveGroupsWriting(Store, groups, localWritten, globalWritten))
          /\ watch' = [dirty |-> \/ watch.dirty
                                 \/ localWritten
                                 \/ /\ globalWritten
                                    /\ savesGlobal(Store, SelectSeq(groups, LAMBDA g : g.isGlobal)),
                       owed |-> TRUE,
                       external |-> watch.external \ Written(groups, localWritten, globalWritten)]
    /\ UNCHANGED <<nextId, last, pc, saveArg, todo, lim, codec, walk, saves>>

SaveGlobalGroupsCall ==
    /\ pc = "idle" /\ todo = <<>>
    /\ \E groups \in NotifyArgs : \E globalWritten \in BOOLEAN :
          /\ SetStore(IF globalWritten THEN saveGlobalGroups(Store, groups)
                      ELSE writeGlobalCache(Store, groups))
          /\ watch' = [dirty |-> watch.dirty \/ globalWritten, owed |-> TRUE,
                       external |-> watch.external \ {s \in {"global"} : globalWritten}]
    /\ UNCHANGED <<nextId, last, pc, saveArg, todo, lim, codec, walk, saves>>

\* setHideGlobalGroups fires onDidChange itself once saveConfigToFile is back.
SetHideGlobalGroupsCall ==
    /\ pc = "idle" /\ todo = <<>>
    /\ \E hide \in BOOLEAN : \E written \in BOOLEAN :
          /\ SetStore([setHideGlobalGroups(Store, hide) EXCEPT
                          !.lf = IF written THEN @ ELSE localFile])
          /\ watch' = [dirty |-> watch.dirty \/ written, owed |-> FALSE,
                       external |-> watch.external \ {s \in {"local"} : written}]
    /\ UNCHANGED <<nextId, last, pc, saveArg, todo, lim, codec, walk, saves>>

\* A watcher's onDidChange / onDidCreate callback: this._onDidChange.fire().
WatcherFires ==
    /\ watch.dirty
    /\ watch' = [dirty |-> FALSE, owed |-> FALSE, external |-> {}]
    /\ UNCHANGED <<storeVars, nextId, last, pc, saveArg, todo, lim, codec, walk, saves>>

\* Another program rewrites an artifact: a valid configuration with other
\* groups, the hide setting left as it was.  The watcher of the artifact sees it.
ExternalContents(isGlobal) ==
    {<<>>, <<[FileGroup(nextId, NoParent, isGlobal, 0) EXCEPT !.files = <<GroupFile(PathA)>>]>>}

ExternalChange ==
    /\ pc = "idle" /\ todo = <<>>
    /\ \/ \E groups \in ExternalContents(FALSE) :
             /\ localFile.exists => loadable(localFile)
             /\ localFile' = Artifact(portableGroups(groups), localFile.hide)
             /\ localFile' # localFile
             /\ watch' = [watch EXCEPT !.dirty = TRUE, !.external = @ \cup {"local"}]
             /\ UNCHANGED globalFile
       \/ \E groups \in ExternalContents(TRUE) :
             /\ globalFile' = Artifact(groups, "unset")
             /\ globalFile' # globalFile
             /\ watch' = [watch EXCEPT !.dirty = TRUE, !.external = @ \cup {"global"}]
             /\ UNCHANGED localFile
    /\ UNCHANGED <<localCache, globalCache, config, nextId, last, pc, saveArg, todo, lim, codec, walk, saves>>

NotifyNext ==
    \/ ExternalChange
    \/ SaveGroupsCall
    \/ SaveGlobalGroupsCall
    \/ SetHideGlobalGroupsCall
    \/ WatcherFires

\* The file system watcher reports a write it has seen.
NotifySpec == NotifyInit /\ [][NotifyNext]_vars /\ WF_vars(WatcherFires)

\* ---------------------------------------------------------- overlapping saves
\* Nothing serialises the handlers: a command or a notification that arrives
\* while a saveGroups call waits at one of its awaits runs at once.  saves
\* holds the saveGroups calls made since the store was last at rest, each
\* with the array it was given and the await it has reached.  A Memento's
\* update() sets the value before it returns its promise, so the local cache
\* is written in the step that makes the call; the writes of the artifacts
\* and the continuation behind "await this.saveToFile(...)" are steps of
\* their own, taken in any order.
OverlapInit ==
    /\ \E n \in 0..1 : \E k \in 0..1 : \E seed \in {<<>>, <<GroupFile(PathA)>>} :
          LET gs == [i \in 1..n |-> [FileGroup(i, NoParent, TRUE, i - 1) EXCEPT !.files = seed]]
              ls == [i \in 1..k |-> [FileGroup(n + i, NoParent, FALSE, i - 1) EXCEPT !.files = seed]]
          IN  /\ localCache = ls
              /\ localFile = Artifact(portableGroups(ls), "unset")
              /\ globalCache = gs
              /\ globalFile = Artifact(gs, "unset")
              /\ nextId = n + k + 1
    /\ config = NoConfig
    /\ last = [op |-> "activate", res |-> <<>>]
    /\ pc = "idle"
    /\ saveArg = <<>>
    /\ todo = <<>>
    /\ lim = [groups |-> MaxOverlap, members |-> 1, drag |-> 0, steps |-> FALSE, noted |-> {},
              paths |-> {PathA}]
    /\ codec = NoCodec
    /\ walk = NoWalk
    /\ watch = NoWatch
    /\ saves = NoSaves

AtRest == \A i \in DOMAIN saves : saves[i].at = "done"

\* A handler reads the groups, changes its copy and calls saveGroups, which
\* runs up to its first await: the local cache holds the local groups.
Begins(op, id, updates, plan) ==
    /\ pc = "idle" /\ todo = <<>>
    /\ AtRest \/ Len(saves) < MaxOverlap
    /\ plan.save
    /\ localCache' = SelectSeq(plan.groups, LAMBDA g : ~g.isGlobal)
    /\ saves' = (IF AtRest THEN <<>> ELSE saves)
                \o <<[op |-> op, id |-> id, updates |-> updates, groups |-> plan.groups,
                      at |-> "saveToFile"]>>
    /\ UNCHANGED <<localFile, globalCache, globalFile, config, nextId, last, pc, saveArg, todo,
                   lim, codec, walk, watch>>

\* fileGroups.pinGroup / unpinGroup on a group of the tree.
UpdateGroupBegins ==
    \E g \in Range(getGroups(Store)) :
        Begins("updateGroup", g.id, [pinned |-> ~g.pinned],
               updateGroup(Store, g.id, [pinned |-> ~g.pinned]))

\* The onDidDelete handler of the workspace file watcher.
OnDidDeleteBegins ==
    \E deletedPath \in lim.paths :
        LET script == onDidDeleteScript(Store, deletedPath)
        IN  /\ script # <<>>
            /\ Begins("onDidDelete", 0, [deleted |-> deletedPath], Plan(Store, Head(script)))

\* writeFile of saveToFile takes effect.
SaveToFileWrites ==
    \E i \in DOMAIN saves :
        /\ saves[i].at = "saveToFile"
        /\ localFile' = saveToFile(Store, SelectSeq(saves[i].groups, LAMBDA g : ~g.isGlobal)).lf
        /\ saves' = [saves EXCEPT ![i].at = "saved"]
        /\ UNCHANGED <<localCache, globalCache, globalFile, config, nextId, last, pc, saveArg,
                       todo, lim, codec, walk, watch>>

\* saveGroups goes on behind "await this.saveToFile(localGroups)": the test,
\* and saveGlobalGroups up to its first await.
SaveGroupsResumes ==
    \E i \in DOMAIN saves :
        LET globalGroups == SelectSeq(saves[i].groups, LAMBDA g : g.isGlobal)
        IN  /\ saves[i].at = "saved"
            /\ IF savesGlobal(Store, globalGroups)
               THEN /\ globalCache' = writeGlobalCache(Store, globalGroups).gc
                    /\ saves' = [saves EXCEPT ![i].at = "saveToGlobalFile"]
               ELSE /\ saves' = [saves EXCEPT ![i].at = "done"]
                    /\ UNCHANGED globalCache
            /\ UNCHANGED <<localCache, localFile, globalFile, config, nextId, last, pc, saveArg,
                           todo, lim, codec, walk, watch>>

\* writeFile of saveToGlobalFile takes effect and the call returns.
SaveToGlobalFileWrites ==
    \E i \in DOMAIN saves :
        /\ saves[i].at = "saveToGlobalFile"
        /\ globalFile' = saveToGlobalFile(Store, SelectSeq(saves[i].groups, LAMBDA g : g.isGlobal)).gf
        /\ saves' = [saves EXCEPT ![i].at = "done"]
        /\ UNCHANGED <<localCache, localFile, globalCache, config, nextId, last, pc, saveArg,
                       todo, lim, codec, walk, watch>>

OverlapNext ==
    \/ UpdateGroupBegins
    \/ OnDidDeleteBegins
    \/ SaveToFileWrites
    \/ SaveGroupsResumes
    \/ SaveToGlobalFileWrites

OverlapSpec == OverlapInit /\ [][OverlapNext]_vars

\* ================================================================ claims
\* Every group held by either cache, whatever the hide setting.
StoredOf(st) ==
    getGlobalGroups(st) \o [i \in DOMAIN st.lc |-> [st.lc[i] EXCEPT !.isGlobal = FALSE]]
Stored == StoredOf(Store)

\* The stores after a handler has run to completion from the current state.
After(script) == RunScript(Store, script)

RECURSIVE AncestorIds(_, _, _)
AncestorIds(ids, groups, n) ==
    IF n = 0 THEN {}
    ELSE LET up == {g.parentId : g \in {h \in Range(groups) : h.id \in ids}} \ {NoParent}
         IN  up \cup AncestorIds(up, groups, n - 1)

\* The ids below id: those with id among their ancestors.
DescendantIds(id, groups) ==
    {g.id : g \in {h \in Range(groups) : id \in AncestorIds({h.id}, groups, Len(groups))}}

\* C1: after any sequence of completed group drops and move-to-root
\* commands, rejected drops included, no group is reachable from itself by
\* following parentId links.
C1_NoCycle ==
    pc = "idle" /\ todo = <<>> =>
        \A g \in Range(Stored) : g.id \notin AncestorIds({g.id}, Stored, Len(Stored))

\* A cycle-forming drop has been attempted and refused in a non-trivial forest.
C1_Witness ==
    /\ last.op = "dropOnGroup" /\ last.res = <<"cycle">>
    /\ \E g \in Range(Stored) : \E p \in Range(Stored) : g.parentId = p.id /\ p.id > g.id

\* C2: a group drop whose target is the dragged group itself or a
\* transitive descendant of it is refused: no call is made, nothing is
\* saved, and the caches and artifacts of both stores stay as they were.
C2_RefusedDropChangesNothing ==
    \A d \in groupItems(Store) : \A t \in groupItems(Store) :
        (d.id = t.id \/ t.id \in DescendantIds(d.id, Stored)) =>
            LET r == After(handleGroupDropScript(<<d>>, t))
            IN  r.st = Store /\ r.res \in {<<"self">>, <<"cycle">>}

\* A drop of a group onto its grandchild has been refused.
C2_Witness ==
    /\ last.op = "dropOnGroup" /\ last.res = <<"cycle">>
    /\ \E d \in groupItems(Store) : \E t \in groupItems(Store) :
          /\ t.id \in DescendantIds(d.id, Stored)
          /\ t.parentId # d.id

\* C3: after every completed operation every group that has a parent is in
\* the same store as that parent.
C3_ChildInParentStore ==
    pc = "idle" /\ todo = <<>> =>
        \A g \in Range(Stored) : \A p \in Range(Stored) :
            g.parentId = p.id => g.isGlobal = p.isGlobal

\* C4: an accepted drop onto a group of the other store leaves the dragged
\* group with the target as parent, and it and all its descendants in the
\* target's store.
C4_CrossStoreDropMovesSubtree ==
    \A d \in groupItems(Store) : \A t \in groupItems(Store) :
        LET r == After(handleGroupDropScript(<<d>>, t))
            after == StoredOf(r.st)
        IN  (d.isGlobal # t.isGlobal /\ r.res[1] = "accepted") =>
                /\ \E g \in Range(after) : g.id = d.id /\ g.parentId = t.id
                /\ \A g \in Range(after) :
                      g.id \in {d.id} \cup DescendantIds(d.id, after) => g.isGlobal = t.isGlobal

\* C5: while hideGlobalGroups is true no operation changes the global
\* store: its cache and its artifact hold the same groups afterwards.
C5_HiddenGlobalStoreKept ==
    [][config.hide = "yes" =>
          globalCache' = globalCache /\ globalFile'.groups = globalFile.groups]_vars

\* C6: deleteGroup(X) removes exactly X and its transitive descendants;
\* every other group of either store stays, with its fields and members.
C6_DeleteRemovesExactlySubtree ==
    \A item \in groupItems(Store) \cup Range(getGroups(Store)) :
        LET gone == {item.id} \cup DescendantIds(item.id, Stored)
        IN  StoredOf(After(deleteGroupScript(item)).st)
                = SelectSeq(Stored, LAMBDA g : g.id \notin gone)

\* C7: in every state, those between the writes of one saveGroups call
\* included, no group id is in both caches and none occurs twice in the
\* result of getGroups().
C7_NoIdInBothCaches ==
    /\ \A i \in DOMAIN localCache : \A j \in DOMAIN globalCache : localCache[i].id # globalCache[j].id
    /\ LET gs == getGroups(Store) IN \A i, j \in DOMAIN gs : gs[i].id = gs[j].id => i = j

\* The members of the stored group with the given id, <<>> if there is none.
MembersOf(st, id) ==
    LET i == IndexOfId(StoredOf(st), id)
    IN  IF i = 0 THEN <<>> ELSE StoredOf(st)[i].files

PathsOf(files) == {files[i].path : i \in DOMAIN files}

\* C8: addFilesToGroup(G, files) on a group G of the tree appends each path
\* of files that G does not hold yet exactly once, keeps the members G had,
\* and returns the number appended; the same call made again returns 0,
\* changes nothing and does not save.
C8_AddFilesOnceThenNothing ==
    \A G \in groupItems(Store) : \A files \in FileLists :
        LET call == addFilesScript(G, files)
            old == MembersOf(Store, G.id)
            fresh == PathsOf(files) \ PathsOf(old)
            first == After(call)
            new == MembersOf(first.st, G.id)
            second == RunScript(first.st, call)
        IN  /\ first.res = <<Cardinality(fresh)>>
            /\ Len(new) = Len(old) + Cardinality(fresh)
            /\ SubSeq(new, 1, Len(old)) = old
            /\ PathsOf(SubSeq(new, Len(old) + 1, Len(new))) = fresh
            /\ second.res = <<0>>
            /\ second.st = first.st
            /\ ~Plan(first.st, call[1]).save

\* C9: between handlers, no group holds two members with the same path.
C9_NoDuplicatePath ==
    pc = "idle" /\ todo = <<>> =>
        \A g \in Range(Stored) :
            \A i, j \in DOMAIN g.files : g.files[i].path = g.files[j].path => i = j

NormalizeSeparators(p) == ReplaceAll(p, "\\", "/")

\* C10: a path under the workspace root that went through toRelativePath
\* and then toAbsolutePath is the path it was, up to the separators.
C10_RoundTrip ==
    codec.stage = "back" /\ codec.place = "under" =>
        NormalizeSeparators(codec.back) = NormalizeSeparators(codec.p)

\* C11: toRelativePath returns a path that is not inside the workspace root
\* unchanged, also when the path only starts with the root's characters.
C11_OutsideUnchanged ==
    codec.stage \in {"relative", "back"} /\ codec.place # "under" => codec.rel = codec.p

UnderRoot(path) == StartsWith(path, Root \o <<"/">>)

\* C12: saving the groups and loading the local artifact again restores the
\* local cache as it was saved, and the artifact holds every member path
\* under the root without the root.
C12_SaveThenLoadRestoresLocal ==
    pc = "idle" /\ todo = <<>> =>
        LET saved == saveGroups(Store, Stored)
            loaded == loadFromFile(saved)
        IN  /\ loaded.lc = saved.lc
            /\ \A g \in Range(saved.lc) : \A i \in DOMAIN saved.lf.groups :
                  saved.lf.groups[i].id = g.id =>
                      \A j \in DOMAIN g.files :
                          UnderRoot(g.files[j].path) =>
                              Root \o <<"/">> \o saved.lf.groups[i].files[j].path = g.files[j].path

\* C13: cleanupMissingFiles run a second time, with the same paths missing
\* and nothing in between, removes no member, does not save and leaves the
\* stores as the first run left them.
C13_CleanupTwiceIsCleanupOnce ==
    \A missing \in SUBSET lim.paths :
        LET first == After(cleanupMissingFilesScript(Store, missing))
            again == cleanupMissingFilesScript(first.st, missing)
        IN  /\ removedCount(getGroups(first.st), missing) = 0
            /\ again = <<>>
            /\ RunScript(first.st, again).st = first.st

\* A cleanup that removed a member has just run.
C13_Witness ==
    last.op = "cleanupMissingFiles" /\ last.res = <<"saved">>

\* C14: after cleanupMissingFiles no stored group, local or global, has a
\* member whose path is missing, every group keeps its members whose paths
\* exist, in their order, and the command saved at most once.
C14_CleanupRemovesExactlyMissing ==
    \A missing \in SUBSET lim.paths :
        LET script == cleanupMissingFilesScript(Store, missing)
        IN  /\ StoredOf(After(script).st) = cleanedGroups(Stored, missing)
            /\ Len(script) <= 1

\* C15: after the delete notification for a path no stored group, local or
\* global, has a member with that path, every other member and every group
\* is as before, and when no group held the path nothing is saved.
C15_DeleteNotificationRemovesPath ==
    \A deletedPath \in lim.paths :
        LET script == onDidDeleteScript(Store, deletedPath)
        IN  /\ StoredOf(After(script).st) = cleanedGroups(Stored, {deletedPath})
            /\ (\A g \in Range(Stored) : ~HasPath(g.files, deletedPath)) => script = <<>>

renamedFiles(files, oldPath, newPath) ==
    [j \in DOMAIN files |-> IF files[j].path = oldPath THEN GroupFile(newPath) ELSE files[j]]

\* C16: after the rename notification from oldPath to newPath every stored
\* group that held oldPath holds, at the same position, a member with path
\* newPath named by the last segment of newPath, no group holds oldPath any
\* more, and the groups that did not hold oldPath are as before.
C16_RenameReplacesInPlace ==
    \A oldPath \in lim.paths : \A newPath \in lim.paths \ {oldPath} :
        LET renamed == StoredOf(After(onDidRenameFilesScript(Store, oldPath, newPath)).st)
        IN  renamed = [i \in DOMAIN Stored |->
                          [Stored[i] EXCEPT !.files = renamedFiles(@, oldPath, newPath)]]

SameButFlag(g, h) == [g EXCEPT !.isGlobal = h.isGlobal] = h

SaveArgs ==
    LET fresh == [FileGroup(nextId, NoParent, FALSE, 0) EXCEPT !.files = <<GroupFile(PathA)>>]
    IN  Picks({[g EXCEPT !.isGlobal = b] : g \in Range(Stored) \cup {fresh}, b \in BOOLEAN}, 2)

\* C18: with hideGlobalGroups not true, right after saveGroups(G) has
\* completed every read returns exactly the groups of G, global ones first,
\* then local ones, in G's relative order, and nothing from before the save.
C18_ReadAfterSave ==
    config.hide # "yes" =>
        \A G \in SaveArgs :
            LET saved == saveGroups(Store, G)
                globalOnes == SelectSeq(G, LAMBDA g : g.isGlobal)
                localOnes == SelectSeq(G, LAMBDA g : ~g.isGlobal)
            IN  /\ getGroups(saved) = globalOnes \o localOnes
                /\ getGlobalGroups(saved) = globalOnes
                /\ \A g \in Range(G) : getGroup(saved, g.id) # <<>>
                /\ \A g \in Range(Stored) :
                      (\A h \in Range(G) : h.id # g.id) => getGroup(saved, g.id) = <<>>

C18_Witness ==
    /\ config.hide # "yes"
    /\ last.op = "cleanupMissingFiles" /\ last.res = <<"saved">>
    /\ globalCache # <<>> /\ localCache # <<>>

LocalRootGroups(st) == SelectSeq(st.lc, LAMBDA g : g.parentId = NoParent)
GlobalRootGroups(st) == SelectSeq(st.gc, LAMBDA g : g.parentId = NoParent)

\* The root level lists each local root group once, pinned groups before
\* unpinned ones and by ascending order within each class, and then one
\* section item exactly when a global root group exists.
RootLevelOf(st) ==
    LET items == getChildren(st)
        roots == LocalRootGroups(st)
        shown == SelectSeq(items, LAMBDA item : item.itemType = "group")
    IN  /\ Len(shown) = Len(roots)
        /\ \A g \in Range(roots) : \E i \in DOMAIN shown : SameButFlag(shown[i].group[1], g)
        /\ \A i \in DOMAIN shown : items[i] = shown[i]
        /\ \A i, j \in DOMAIN shown :
              i < j => LET a == shown[i].group[1]
                           b == shown[j].group[1]
                       IN  /\ b.pinned => a.pinned
                           /\ a.pinned = b.pinned => a.order <= b.order
        /\ Len(items) = Len(shown) + (IF GlobalRootGroups(st) # <<>> THEN 1 ELSE 0)
        /\ Len(items) > Len(shown) => items[Len(items)] = sectionItem

RECURSIVE CountIn(_, _, _)
CountIn(groups, ids, path) ==
    IF groups = <<>> THEN 0
    ELSE (IF Head(groups).id \in ids
          THEN Len(SelectSeq(Head(groups).files, LAMBDA f : f.path = path)) ELSE 0)
         + CountIn(Tail(groups), ids, path)

\* C20: getAllFilesInGroup(G) returns the members of G and of every
\* transitive descendant of G, one entry per group membership, and no member
\* of a group outside G's subtree.
C20_AllFilesOfSubtree ==
    \A G \in Range(Stored) :
        LET files == getAllFilesInGroup(Store, G.id)
            subtree == {G.id} \cup DescendantIds(G.id, Stored)
        IN  \A path \in lim.paths :
                Len(SelectSeq(files, LAMBDA f : f.path = path)) = CountIn(Stored, subtree, path)

\* The members of the given groups, group after group.
RECURSIVE FilesOf(_)
FilesOf(groups) ==
    IF groups = <<>> THEN <<>> ELSE Head(groups).files \o FilesOf(Tail(groups))

\* C21: getAllFilesInGroup(G) lists G's own members first and the members
\* of its descendants after them, each group's members in their stored
\* order, whatever the order in which the groups are stored.
C21_OwnMembersFirst ==
    \A G \in Range(Stored) :
        LET descendants == {g \in Range(Stored) : g.id \in DescendantIds(G.id, Stored)}
        IN  \E q \in {<<>>} \cup DistinctPicks(descendants, Len(Stored)) :
                /\ Range(q) = descendants
                /\ getAllFilesInGroup(Store, G.id) = G.files \o FilesOf(q)

\* C22: getGroupAndChildIds and isDescendant terminate for every finite set
\* of groups, a set whose parentId links contain a cycle included: every
\* started traversal eventually returns.
C22_TraversalsTerminate == <>(walk.stage = "returned")

SiblingCount(parentId) == Len(SelectSeq(Stored, LAMBDA g : g.parentId = parentId))

\* The order of the group with the given id once the script has run, or -1
\* when no such group is stored.
OrderAfter(script, id) ==
    LET created == find(StoredOf(After(script).st), id)
    IN  IF created = <<>> THEN 0 - 1 ELSE created[1].order

\* C23: a group created by the create-group or the create-subgroup command
\* gets an order equal to the number of groups that already have the same
\* parent.
C23_OrderIsSiblingCount ==
    /\ OrderAfter(createGroupScript(Store, nextId), nextId) = SiblingCount(NoParent)
    /\ \A item \in groupItems(Store) :
          OrderAfter(createSubgroupScript(Store, nextId, item), nextId) = SiblingCount(item.id)

\* The argument lists of reorderGroups: stored ids and one unknown id, in
\* any order, repeats included.
ReorderArgs == Picks({g.id : g \in Range(Stored)} \cup {nextId}, 2)

\* C24: reorderGroups(ids) keeps the stored groups (none lost, none
\* duplicated, all fields but order as before), orders the groups named in
\* ids as ids lists them and before every group not named, keeps the groups
\* not named in their previous relative order, and leaves the order values
\* dense: exactly 0..n-1.
C24_ReorderKeepsGroupsDense ==
    \A groupIds \in ReorderArgs :
        LET after == StoredOf(saveGroups(Store, reorderGroups(Store, groupIds).groups))
            orderOf(id) == after[IndexOfId(after, id)].order
            named == {g.id : g \in Range(Stored)} \cap Range(groupIds)
            first(id) == CHOOSE i \in DOMAIN groupIds :
                             groupIds[i] = id /\ \A j \in 1..(i - 1) : groupIds[j] # id
        IN  /\ Len(after) = Len(Stored)
            /\ \A g \in Range(Stored) :
                  \E i \in DOMAIN after : [after[i] EXCEPT !.order = g.order] = g
            /\ {after[i].order : i \in DOMAIN after} = 0..(Len(after) - 1)
            /\ \A a, b \in named : first(a) < first(b) => orderOf(a) < orderOf(b)
            /\ \A a \in named : \A i \in DOMAIN Stored :
                  Stored[i].id \notin named => orderOf(a) < orderOf(Stored[i].id)
            /\ \A i, j \in DOMAIN Stored :
                  i < j /\ Stored[i].id \notin named /\ Stored[j].id \notin named
                      => orderOf(Stored[i].id) < orderOf(Stored[j].id)

\* C25: reorderFilesInGroup(G, dragged, target) leaves G's members a
\* permutation of what they were with the members other than dragged in the
\* same relative order; dragged ends up immediately before target when
\* target is another member of G, and last when target is null or not a
\* member; when dragged is not a member nothing changes and nothing is saved.
C25_ReorderMovesOneMember ==
    \A G \in Range(Stored) : \A dragged \in lim.paths : \A target \in {<<>>} \cup lim.paths :
        LET r == After(<<Call("reorderFilesInGroup", G.id, dragged, target)>>)
            before == G.files
            after == MembersOf(r.st, G.id)
        IN  IF ~HasPath(before, dragged)
            THEN r.st = Store
            ELSE \E from \in DOMAIN before : \E to \in DOMAIN after :
                    /\ before[from].path = dragged
                    /\ after[to] = before[from]
                    /\ RemoveAt(after, to) = RemoveAt(before, from)
                    /\ target # dragged /\ HasPath(before, target)
                          => to < Len(after) /\ after[to + 1].path = target
                    /\ target = <<>> \/ ~HasPath(before, target) => to = Len(after)

\* One call of each method with a group id that neither store holds.
MissingIdCalls ==
    <<Call("updateGroup", nextId, [pinned |-> TRUE], 0),
      Call("updateGroupRecursive", nextId, [isGlobal |-> TRUE], 0),
      Call("deleteGroup", nextId, 0, 0),
      Call("addFileToGroup", nextId, GroupFile(PathA), 0),
      Call("addFilesToGroup", nextId, <<GroupFile(PathA)>>, 0),
      Call("removeFileFromGroup", nextId, PathA, 0),
      Call("reorderFilesInGroup", nextId, PathA, <<>>)>>

\* C26: updateGroup, updateGroupRecursive, deleteGroup, addFileToGroup,
\* addFilesToGroup, removeFileFromGroup and reorderFilesInGroup, called with
\* a group id that is in neither store, leave the groups of both stores
\* unchanged; addFileToGroup returns false and addFilesToGroup returns 0.
C26_MissingIdChangesNothing ==
    \A i \in DOMAIN MissingIdCalls :
        LET r == After(<<MissingIdCalls[i]>>)
        IN  /\ StoredOf(r.st) = Stored
            /\ MissingIdCalls[i].k = "addFileToGroup" => r.res = <<FALSE>>
            /\ MissingIdCalls[i].k = "addFilesToGroup" => r.res = <<0>>

ShortSaveArgs == {G \in SaveArgs : Len(G) <= 1}

GroupsIn(file) == IF file.exists THEN file.groups ELSE <<>>

\* C27: a saveGroups call during which an artifact write fails still leaves
\* the caches holding the new forest, and after the next saveGroups call
\* whose artifact writes succeed each store's artifact holds the same groups
\* as its cache (the local one with its member paths made portable).
C27_NextSaveRepairsArtifacts ==
    \A G \in ShortSaveArgs : \A localWritten, globalWritten \in BOOLEAN : \A next \in ShortSaveArgs :
        LET failed == saveGroupsWriting(Store, G, localWritten, globalWritten)
            repaired == saveGroups(failed, next)
        IN  /\ failed.lc = saveGroups(Store, G).lc
            /\ failed.gc = saveGroups(Store, G).gc
            /\ GroupsIn(repaired.lf) = portableGroups(repaired.lc)
            /\ GroupsIn(repaired.gf) = repaired.gc

\* C28: loadFromFile and loadFromGlobalFile, given an artifact that is
\* missing, is not valid JSON, or lacks a version or a groups field, return
\* false and leave the local cache, the global cache and the stored
\* hideGlobalGroups setting unchanged.
C28_UnloadableArtifactChangesNothing ==
    \A hide \in {"unset", "yes", "no"} :
        \A file \in Unloadable(<<FileGroup(nextId, NoParent, FALSE, 0)>>, hide) :
            LET local == loadFromFile([Store EXCEPT !.lf = file])
                global == loadFromGlobalFile([Store EXCEPT !.gf = file])
            IN  /\ ~loadable(file)
                /\ local.lc = localCache /\ local.gc = globalCache /\ local.cfg = config
                /\ global.lc = localCache /\ global.gc = globalCache /\ global.cfg = config

\* The extension was activated on a damaged local artifact while the global
\* store held a group.
C28_Witness ==
    /\ last.op = "activate"
    /\ localFile.exists /\ ~loadable(localFile)
    /\ globalCache # <<>>

\* C29: every in-process save that completes (saveGroups, saveGlobalGroups,
\* setHideGlobalGroups) is followed by an onDidChange event of the store.
C29_SaveThenChangeEvent == watch.owed ~> ~watch.owed

\* The hideGlobalGroups value a reader of the local artifact gets: false
\* when the artifact cannot be read or has no such field.
HideIn(file) == loadable(file) /\ file.hide = "yes"

\* Whenever a hide setting is in use, it is the one the artifact holds.
FlagAgrees == config.set => HideIn(localFile) = shouldHideGlobalGroups(Store)

\* C30: once setHideGlobalGroups(h) has completed the local artifact's
\* hideGlobalGroups field equals h and keeps equal to h through every later
\* group mutation, until setHideGlobalGroups is called again: every call that
\* writes the local artifact while it holds the hide setting that getGroups
\* uses leaves that setting in it.
C30_ArtifactFlagIsTheFlagInUse ==
    [][(FlagAgrees /\ localFile' # localFile) => FlagAgrees']_vars

\* C31: during a group drop that moves a group between stores no persisted
\* state has a group whose parentId names a group of the other store.  Here:
\* when a drop on the empty area has saved the isGlobal change of the dragged
\* subtree and has not yet saved the parentId change, the dragged group's
\* parent is not a group of the other store.
C31_NoSplitBetweenSaves ==
    (last.op = "dropOnEmpty" /\ pc = "idle" /\ Len(last.res) = 1 /\ todo # <<>>) =>
        \A g \in Range(Stored) : \A p \in Range(Stored) :
            (g.id = Head(todo).id /\ g.parentId = p.id) => g.isGlobal = p.isGlobal

\* C32: while hideGlobalGroups is true the presented tree, getChildren from
\* the root downwards, has no global-section item and no global group.
C32_HiddenTreeHasNoGlobal ==
    shouldHideGlobalGroups(Store) =>
        /\ sectionItem \notin Range(getChildren(Store))
        /\ \A g \in groupItems(Store) : ~g.isGlobal

\* C33: when an artifact has been modified by another program, handling the
\* watch event reloads it into its cache: right after the event a getGroups()
\* returns the artifact's new content.
C33_WatchEventReloads ==
    [][(watch.dirty /\ ~watch'.dirty) =>
          /\ "local" \in watch.external => localCache' = loadFromFile(Store).lc
          /\ "global" \in watch.external => globalCache' = loadFromGlobalFile(Store).gc]_vars

\* C34: saveGroups(G) with no global group in G writes nothing to the global
\* cache or the global artifact when the global cache is empty, and sets the
\* global cache and the global artifact to the empty list when it is not.
C34_SaveWithoutGlobalGroups ==
    \A G \in SaveArgs :
        (\A g \in Range(G) : ~g.isGlobal) =>
            LET saved == saveGroups(Store, G)
            IN  IF globalCache = <<>>
                THEN saved.gc = globalCache /\ saved.gf = globalFile
                ELSE saved.gc = <<>> /\ saved.gf.exists /\ saved.gf.groups = <<>>

\* A clean-up has saved local groups only: once with the global store empty
\* and its artifact never written, once emptying a global store that was hidden.
C34_Witness ==
    /\ last.op = "cleanupMissingFiles" /\ last.res = <<"saved">>
    /\ globalCache = <<>>
    /\ ~globalFile.exists \/ (config.hide = "yes" /\ globalFile.exists)

\* The members of a list other than those with the given path, in order.
Others(files, path) == SelectSeq(files, LAMBDA f : f.path # path)

\* C35: dropping a file member f of group S onto a different group T leaves
\* f absent from S and present exactly once in T, with every other member of
\* S and of T unchanged and in the same order, also when T already held a
\* member with f's path.
C35_FileMovesBetweenGroups ==
    \A item \in fileItems(Store) : \A T \in groupItems(Store) :
        item.group.id # T.id =>
            LET st == After(handleFileDropScript(<<item>>, T, <<>>)).st
                path == item.file.path
                inS == MembersOf(st, item.group.id)
                inT == MembersOf(st, T.id)
            IN  /\ ~HasPath(inS, path)
                /\ Len(inT) - Len(Others(inT, path)) = 1
                /\ Others(inS, path) = Others(MembersOf(Store, item.group.id), path)
                /\ Others(inT, path) = Others(MembersOf(Store, T.id), path)

\* C36: setHideGlobalGroups(h) changes only the hide flag: the groups in the
\* local cache, the local artifact, the global cache and the global artifact
\* are the same after the call as before it, whether or not a hide setting
\* had been stored before.
C36_HideChangesOnlyTheFlag ==
    \A hide \in BOOLEAN :
        LET st == setHideGlobalGroups(Store, hide)
        IN  /\ st.lc = localCache
            /\ st.gc = globalCache
            /\ GroupsIn(st.lf) = GroupsIn(localFile)
            /\ GroupsIn(st.gf) = GroupsIn(globalFile)

\* C37: whenever no save is in progress (no artifact write fails here) each
\* store's artifact holds the same groups as its cache, the local member
\* paths in their portable form, whatever the interleaving of the
\* overlapping saves that commands and notifications started.
C37_ArtifactsMirrorCachesAtRest ==
    AtRest =>
        /\ GroupsIn(localFile) = portableGroups(localCache)
        /\ GroupsIn(globalFile) = globalCache

\* C38: when two updates of different groups overlap, the second starting
\* while the first waits inside saveGroups, then after both have completed
\* the caches hold the effect of both, for local and for global groups.
C38_NoLostUpdate ==
    (/\ Len(saves) = 2 /\ AtRest
     /\ saves[1].op = "updateGroup" /\ saves[2].op = "updateGroup"
     /\ saves[1].id # saves[2].id) =>
        \A i \in {1, 2} : \E g \in Range(Stored) :
            g.id = saves[i].id /\ g.pinned = saves[i].updates.pinned

====
